---- MODULE Spec2Model ----
(***************************************************************************)
(* Animal Call Audio Downloader: the acquisition driver of                 *)
(* Audio_Downloader.py and of its earlier variant xeno.py.                 *)
(*                                                                         *)
(* Text is a sequence of one-character strings, so that sanitize, the      *)
(* file names and the folder paths are computed character by character.    *)
(* A path is a text.                                                       *)
(***************************************************************************)
EXTENDS Integers, Sequences, FiniteSets

(***************************************************************************)
(* Bounds of the model.                                                    *)
(***************************************************************************)
\* longest text handed to sanitize on its own
MaxLen == 3
\* pages in a catalog's chain of continuation links, items on one page
MaxPages == 3
MaxPageLen == 2
MaxAssetId == 2
\* largest max_items handed to find_audio_asset_ids on its own
MaxLimit == 3
\* rows of the taxonomy table in the folder computation on its own
MaxTaxRows == 2
\* the driver: species in the list, items of one catalog answer, asset ids, runs
MaxSpecies == 2
MaxContent == 2
MaxId == 1
MaxRuns == 2

\* characters the texts of the model are made of
Alphabet == {"a", " ", "_", "/", "*"}

(***************************************************************************)
(* Python values.                                                          *)
(***************************************************************************)
\* None, told apart from every text (no text holds a four-letter character)
None == <<"None">>

\* truth value of a text-or-None in an if
Truthy(x) == x # None /\ x # <<>>

Take(s, n) == IF Len(s) <= n THEN s ELSE SubSeq(s, 1, n)

\* str(n) for n >= 0
RECURSIVE str(_)
str(n) ==
  LET digit == <<"0", "1", "2", "3", "4", "5", "6", "7", "8", "9">>[(n % 10) + 1]
  IN IF n < 10 THEN <<digit>> ELSE str(n \div 10) \o <<digit>>

\* os.path.join (posixpath) of texts, as text
RECURSIVE os_path_join(_)
os_path_join(segs) ==
  IF Len(segs) = 1 THEN segs[1]
  ELSE LET path == os_path_join(SubSeq(segs, 1, Len(segs) - 1))
           b == segs[Len(segs)]
       IN IF b # <<>> /\ b[1] = "/" THEN b
          ELSE IF path = <<>> \/ path[Len(path)] = "/" THEN path \o b
          ELSE path \o <<"/">> \o b

(***************************************************************************)
(* Sanitizer.                                                              *)
(***************************************************************************)
\* the character class [\\/*?:"<>|]
Illegal == {"\\", "/", "*", "?", ":", "\"", "<", ">", "|"}

\* name.replace(' ', '_')
replace_spaces(name) ==
  [i \in 1..Len(name) |-> IF name[i] = " " THEN "_" ELSE name[i]]

\* re.sub(r'[\\/*?:"<>|]', '', s)
re_sub_illegal(s) == SelectSeq(s, LAMBDA c : c \notin Illegal)

\* re.sub with count=1: only the first illegal character goes
re_sub_first(s) ==
  LET hits == {i \in 1..Len(s) : s[i] \in Illegal}
  IN IF hits = {} THEN s
     ELSE LET k == CHOOSE i \in hits : \A j \in hits : i <= j
          IN SubSeq(s, 1, k - 1) \o SubSeq(s, k + 1, Len(s))

sanitize_first_only(name) == re_sub_first(replace_spaces(name))

sanitize(name) == re_sub_illegal(replace_spaces(name))

(***************************************************************************)
(* Taxonomy resolver.  The table is the sequence of its rows; the cells    *)
(* of a row are texts.                                                     *)
(***************************************************************************)
taxonomy_rows(tax, common_name, scientific_name) ==
  SelectSeq(tax, LAMBDA r : r.PRIMARY_COM_NAME = common_name
                            /\ r.SCI_NAME = scientific_name)

get_taxonomy_info(tax, common_name, scientific_name) ==
  LET row == taxonomy_rows(tax, common_name, scientific_name)
  IN IF row # <<>> THEN <<row[1].ORDER, row[1].FAMILY>> ELSE <<None, None>>

get_taxon_code(tax, scientific_name, common_name) ==
  LET row == taxonomy_rows(tax, common_name, scientific_name)
  IN IF row # <<>> THEN row[1].SPECIES_CODE ELSE None

\* xeno.py: the code table is keyed by "<scientific name>_<common name>"
get_taxon_code_xeno(tax, scientific_name, common_name) ==
  LET species_key == scientific_name \o <<"_">> \o common_name
      row == SelectSeq(tax, LAMBDA r :
                 r.SCI_NAME \o <<"_">> \o r.PRIMARY_COM_NAME = species_key)
  IN IF row # <<>> THEN row[1].SPECIES_CODE ELSE None

main_audio_folder == <<"a", "u", "d", "i", "o", "_", "s", "a", "m", "p", "l", "e", "s">>

\* the common name's segment is left out
folder_path_nameless(tax, common_name, scientific_name) ==
  LET of == get_taxonomy_info(tax, common_name, scientific_name)
  IN IF Truthy(of[1]) /\ Truthy(of[2])
     THEN os_path_join(<<main_audio_folder, sanitize(of[1]), sanitize(of[2])>>)
     ELSE main_audio_folder

\* main: the destination folder of a species
folder_path(tax, common_name, scientific_name) ==
  LET of == get_taxonomy_info(tax, common_name, scientific_name)
  IN IF Truthy(of[1]) /\ Truthy(of[2])
     THEN os_path_join(<<main_audio_folder, sanitize(of[1]), sanitize(of[2]),
                         sanitize(common_name)>>)
     ELSE os_path_join(<<main_audio_folder, sanitize(common_name)>>)

\* xeno.py main: always the flat folder
species_folder_xeno(common_name) ==
  os_path_join(<<main_audio_folder, sanitize(common_name)>>)

(***************************************************************************)
(* Paginated catalog adapter.  A catalog server is the chain of pages it   *)
(* would serve and the page whose request fails (0: none).  An item is     *)
(* its assetId, 0 where the item carries none.                             *)
(***************************************************************************)
\* requests.get(MACAULAY_URL, params) + raise_for_status + json: the answer
\* to the one request the adapter sends, which is the request for page 1
first_response(server) ==
  [ok      |-> server.failAt # 1,
   content |-> server.pages[1],
   next    |-> Len(server.pages) > 1]

\* Audio_Downloader.py
find_audio_asset_ids(response, max_items) ==
  IF response.ok THEN Take(response.content, max_items) ELSE <<>>

\* xeno.py
find_audio_asset_ids_xeno(response) ==
  IF response.ok THEN response.content ELSE <<>>

\* the items of a catalog answer that main goes on to acquire
valid_items(content) == SelectSeq(content, LAMBDA a : a # 0)

(***************************************************************************)
(* Retrieval engine.  The store is the media files and the sidecar files   *)
(* on disk and the rows of the metadata table; a sidecar is named by the   *)
(* media path it shares its stem with.  env is what the world answers to   *)
(* one call: the fetch, the two file writes and the insert.                *)
(***************************************************************************)
WriteOutcomes == {"ok", "open_fails", "write_fails"}

\* one answer per place where a call can fail, and the answer where nothing fails
Envs ==
  {e \in [fetch : BOOLEAN, write : WriteOutcomes, json : WriteOutcomes, insert : BOOLEAN] :
     /\ (~e.fetch => e.write = "ok")
     /\ (e.write # "ok" => e.json = "ok")
     /\ (e.json # "ok" => e.insert)
     /\ (~e.insert => e.fetch)}

\* f"{sanitize(common_name)}_ML_{asset_id}.mp3", f"{sanitize(common_name)}_XC_{item['id']}.mp3"
asset_filename(common_name, tag, id) ==
  sanitize(common_name) \o <<"_">> \o tag \o <<"_">> \o str(id) \o <<".", "m", "p", "3">>

ML == <<"M", "L">>
XC == <<"X", "C">>

\* the metadata dict, as far as the driver sets it itself; the other keys copy the
\* catalog item.  (xeno.py's dict has other keys and goes to the sidecar only.)
metadata_of(common_name, tag, id) ==
  [source      |-> IF tag = ML THEN "Macaulay Library" ELSE "Xeno-Canto",
   id          |-> str(id),
   common_name |-> common_name,
   filename    |-> asset_filename(common_name, tag, id)]

\* what a call leaves behind and reports; fetched: a GET of the media url was sent
Result(store, outcome, ret, fetched, raised) ==
  [files |-> store.files, sidecars |-> store.sidecars, sink |-> store.sink,
   writes |-> store.writes, inserted |-> store.inserted,
   outcome |-> outcome, ret |-> ret, fetched |-> fetched, raised |-> raised]

\* with open(filepath, 'wb') as f: f.write(response.content)
write_media(store, filepath, env) ==
  IF env.write = "open_fails" THEN store
  ELSE [store EXCEPT !.files = @ \cup {filepath}, !.writes = Append(@, filepath)]

\* with open(jsonpath, 'w') as jf: json.dump(metadata, jf, indent=2), where jsonpath
\* is filepath with its ".mp3" replaced by ".json"
write_sidecar(store, filepath, env) ==
  IF env.json = "open_fails" THEN store
  ELSE [store EXCEPT !.sidecars = @ \cup {filepath}]

\* con.execute("INSERT INTO metadata VALUES (...)")
store_metadata(store, filepath, meta) ==
  [store EXCEPT !.sink = Append(@, meta), !.inserted = Append(@, filepath)]

\* the steps after a successful fetch, up to the first that fails
save_fetched(store, filepath, metadata, env, with_sink) ==
  LET s1 == write_media(store, filepath, env)
      s2 == write_sidecar(s1, filepath, env)
      s3 == store_metadata(s2, filepath, metadata)
  IN IF env.write # "ok" THEN Result(s1, "Failed", FALSE, TRUE, FALSE)
     ELSE IF env.json # "ok" THEN Result(s2, "Failed", FALSE, TRUE, FALSE)
     ELSE IF ~with_sink THEN Result(s2, "Saved", TRUE, TRUE, FALSE)
     ELSE IF ~env.insert THEN Result(s2, "Failed", FALSE, TRUE, FALSE)
     ELSE Result(s3, "Saved", TRUE, TRUE, FALSE)

\* no existence check: every call fetches and writes
download_audio_unchecked(store, species_folder, filename, metadata, env) ==
  LET filepath == os_path_join(<<species_folder, filename>>)
  IN IF ~env.fetch THEN Result(store, "Failed", FALSE, TRUE, FALSE)
     ELSE save_fetched(store, filepath, metadata, env, TRUE)

\* the file is opened before the fetch: a failed fetch leaves an empty file
download_audio_open_first(store, species_folder, filename, metadata, env) ==
  LET filepath == os_path_join(<<species_folder, filename>>)
  IN IF filepath \in store.files THEN Result(store, "Skipped", FALSE, FALSE, FALSE)
     ELSE IF ~env.fetch
     THEN Result(write_media(store, filepath, [env EXCEPT !.write = "write_fails"]),
                 "Failed", FALSE, TRUE, FALSE)
     ELSE save_fetched(store, filepath, metadata, env, TRUE)

\* no except clause: a failed fetch raises past the caller
download_audio_unguarded(store, species_folder, filename, metadata, env) ==
  LET filepath == os_path_join(<<species_folder, filename>>)
  IN IF filepath \in store.files THEN Result(store, "Skipped", FALSE, FALSE, FALSE)
     ELSE IF ~env.fetch THEN Result(store, "Failed", FALSE, TRUE, TRUE)
     ELSE save_fetched(store, filepath, metadata, env, TRUE)

\* Audio_Downloader.py
download_audio(store, species_folder, filename, metadata, env) ==
  LET filepath == os_path_join(<<species_folder, filename>>)
  IN IF filepath \in store.files THEN Result(store, "Skipped", FALSE, FALSE, FALSE)
     ELSE IF ~env.fetch THEN Result(store, "Failed", FALSE, TRUE, FALSE)
     ELSE save_fetched(store, filepath, metadata, env, TRUE)

\* xeno.py: the fetch comes first, an existing file is reported as True, no table
download_audio_xeno(store, species_folder, filename, metadata, env) ==
  LET filepath == os_path_join(<<species_folder, filename>>)
  IN IF ~env.fetch THEN Result(store, "Failed", FALSE, TRUE, FALSE)
     ELSE IF filepath \notin store.files
     THEN save_fetched(store, filepath, metadata, env, FALSE)
     ELSE Result(store, "Skipped", TRUE, TRUE, FALSE)

(***************************************************************************)
(* The driver: main() and fetch_xeno_canto(), run after run over the same  *)
(* disk and the same metadata table.                                       *)
(***************************************************************************)
VARIABLES
  variant,    \* "main": Audio_Downloader.py, "xeno": xeno.py
  species,    \* df_species: the rows of the species list
  tax,        \* df_full_taxonomy (df_taxonomy in xeno.py)
  run,        \* runs started so far
  pc,         \* where the run is
  si,         \* index of the species at hand
  folder,     \* folder_path of the species at hand
  queue,      \* the items of the current for loop not yet looked at
  store,      \* files, sidecars, sink; writes and inserted log the paths written and inserted
  query_ok,   \* whether the last catalog request succeeded
  last,       \* the last download_audio call: its arguments and what it did
  fnOp, fnIn, fnOut, fnDone   \* one function applied on its own to one input

driverVars == <<variant, species, tax, run, pc, si, folder, queue, store, query_ok, last>>
fnVars == <<fnOp, fnIn, fnOut, fnDone>>
vars == <<variant, species, tax, run, pc, si, folder, queue, store, query_ok, last,
          fnOp, fnIn, fnOut, fnDone>>

\* max_items=21 at both call sites of main
max_items == 21

\* the species lists and taxonomy tables the driver is run on
Sp1 == [common |-> <<"a", " ", "a">>, sci |-> <<"a">>]
Sp2 == [common |-> <<"a", "/">>, sci |-> <<"a", "a">>]
SpeciesUniverse == {Sp1, Sp2}

TaxRowOf(sp) ==
  [PRIMARY_COM_NAME |-> sp.common, SCI_NAME |-> sp.sci,
   ORDER |-> <<"a", "*">>, FAMILY |-> <<"a", " ">> \o sp.sci, SPECIES_CODE |-> sp.sci]

SeqsUpTo(S, n) == UNION {[1..k -> S] : k \in 0..n}

SpeciesLists == {l \in SeqsUpTo(SpeciesUniverse, MaxSpecies) : l # <<>>}

\* Sp1 is in the table, Sp2 is not
TaxTables == {<<TaxRowOf(Sp1)>>}

\* the answers of a catalog to one search request
Responses ==
  {r \in [ok : BOOLEAN, content : SeqsUpTo(0..MaxId, MaxContent), next : {FALSE}] :
     ~r.ok => r.content = <<>>}

NoCall ==
  [args |-> <<>>, path |-> <<>>, outcome |-> "none", ret |-> FALSE,
   fetched |-> FALSE, fetch_ok |-> FALSE, inserts |-> 0]

EmptyStore ==
  [files |-> {}, sidecars |-> {}, sink |-> <<>>, writes |-> <<>>, inserted |-> <<>>]

FnIdle == fnOp = "none" /\ fnIn = <<>> /\ fnOut = <<>> /\ fnDone = FALSE

Init ==
  /\ variant \in {"main", "xeno"}
  /\ species \in SpeciesLists
  /\ tax \in TaxTables
  /\ run = 0
  /\ pc = "idle"
  /\ si = 0
  /\ folder = <<>>
  /\ queue = <<>>
  /\ store = EmptyStore
  /\ query_ok = TRUE
  /\ last = NoCall
  /\ FnIdle

\* python Audio_Downloader.py / python xeno.py, once more
StartRun ==
  /\ pc \in {"idle", "done"}
  /\ run < MaxRuns
  /\ run' = run + 1
  /\ si' = 1
  /\ pc' = "species"
  /\ UNCHANGED <<variant, species, tax, folder, queue, store, query_ok, last, fnVars>>

\* the head of the for loop over df_species, down to the taxon code
BeginSpecies ==
  /\ pc = "species"
  /\ si <= Len(species)
  /\ LET common_name == species[si].common
         scientific_name == species[si].sci
         taxon_code == IF variant = "main"
                       THEN get_taxon_code(tax, scientific_name, common_name)
                       ELSE get_taxon_code_xeno(tax, scientific_name, common_name)
     IN /\ folder' = IF variant = "main"
                     THEN folder_path(tax, common_name, scientific_name)
                     ELSE species_folder_xeno(common_name)
        /\ pc' = IF Truthy(taxon_code) THEN "mac_query" ELSE "xc_query"
  /\ UNCHANGED <<variant, species, tax, run, si, queue, store, query_ok, last, fnVars>>

\* the species list is exhausted: the closing print
Finish ==
  /\ pc = "species"
  /\ si > Len(species)
  /\ pc' = "done"
  /\ UNCHANGED <<variant, species, tax, run, si, folder, queue, store, query_ok, last, fnVars>>

\* macaulay_results = find_audio_asset_ids(taxon_code, ...)
MacaulayQuery ==
  /\ pc = "mac_query"
  /\ \E response \in Responses :
       /\ queue' = IF variant = "main"
                   THEN find_audio_asset_ids(response, max_items)
                   ELSE find_audio_asset_ids_xeno(response)
       /\ query_ok' = response.ok
  /\ pc' = "mac_loop"
  /\ UNCHANGED <<variant, species, tax, run, si, folder, store, last, fnVars>>

\* one call of download_audio by the driver, and what the call is remembered as
Acquire(tag, id, env) ==
  LET common_name == species[si].common
      filename == asset_filename(common_name, tag, id)
      metadata == metadata_of(common_name, tag, id)
  IN IF variant = "main"
     THEN download_audio(store, folder, filename, metadata, env)
     ELSE download_audio_xeno(store, folder, filename, metadata, env)

CallRecord(tag, id, env, r) ==
  LET common_name == species[si].common
      filename == asset_filename(common_name, tag, id)
  IN [args     |-> <<folder, filename, tag, id, metadata_of(common_name, tag, id)>>,
      path     |-> os_path_join(<<folder, filename>>),
      outcome  |-> r.outcome,
      ret      |-> r.ret,
      fetched  |-> r.fetched,
      fetch_ok |-> r.fetched /\ env.fetch,
      inserts  |-> Len(r.sink) - Len(store.sink)]

StoreOf(r) ==
  [files |-> r.files, sidecars |-> r.sidecars, sink |-> r.sink,
   writes |-> r.writes, inserted |-> r.inserted]

\* the state after one pass through the body of main's for loop over macaulay_results
macaulay_step(asset_id, r) ==
  IF r.raised THEN [pc |-> "crashed", queue |-> Tail(queue)]
  ELSE [pc |-> "mac_sleep", queue |-> Tail(queue)]

\* one item of macaulay_results: skipped when it has no assetId, acquired otherwise
MacaulayItem ==
  /\ pc = "mac_loop"
  /\ queue # <<>>
  /\ LET asset_id == Head(queue)
     IN IF asset_id = 0
        THEN /\ queue' = Tail(queue)
             /\ UNCHANGED <<pc, store, last>>
        ELSE \E env \in Envs :
               LET r == Acquire(ML, asset_id, env)
                   to == macaulay_step(asset_id, r)
               IN /\ store' = StoreOf(r)
                  /\ last' = CallRecord(ML, asset_id, env, r)
                  /\ pc' = to.pc
                  /\ queue' = to.queue
  /\ UNCHANGED <<variant, species, tax, run, si, folder, query_ok, fnVars>>

\* macaulay_results is exhausted
MacaulayDone ==
  /\ pc = "mac_loop"
  /\ queue = <<>>
  /\ pc' = "xc_query"
  /\ UNCHANGED <<variant, species, tax, run, si, folder, queue, store, query_ok, last, fnVars>>

\* time.sleep(1)
Sleep ==
  /\ pc \in {"mac_sleep", "xc_sleep"}
  /\ pc' = IF pc = "mac_sleep" THEN "mac_loop" ELSE "xc_loop"
  /\ UNCHANGED <<variant, species, tax, run, si, folder, queue, store, query_ok, last, fnVars>>

\* fetch_xeno_canto up to its for loop; a failed request ends the function
XenoCantoQuery ==
  /\ pc = "xc_query"
  /\ \E response \in Responses :
       /\ query_ok' = response.ok
       /\ IF response.ok
          THEN /\ queue' = IF variant = "main"
                           THEN Take(response.content, max_items)
                           ELSE response.content
               /\ pc' = "xc_loop"
               /\ si' = si
          ELSE /\ queue' = <<>>
               /\ pc' = "species"
               /\ si' = si + 1
  /\ UNCHANGED <<variant, species, tax, run, folder, store, last, fnVars>>

\* the state after one pass through the body of fetch_xeno_canto's for loop
xeno_canto_step(id, r) ==
  IF r.raised THEN [pc |-> "species", si |-> si + 1, queue |-> <<>>]
  ELSE IF r.ret THEN [pc |-> "xc_sleep", si |-> si, queue |-> Tail(queue)]
  ELSE [pc |-> "xc_loop", si |-> si, queue |-> Tail(queue)]

\* one recording: an item without its 'file' or 'id' key (0) raises KeyError, which the
\* except clause around the loop catches, dropping the rest of the recordings
XenoCantoItem ==
  /\ pc = "xc_loop"
  /\ queue # <<>>
  /\ LET id == Head(queue)
     IN IF id = 0
        THEN /\ queue' = <<>>
             /\ pc' = "species"
             /\ si' = si + 1
             /\ UNCHANGED <<store, last>>
        ELSE \E env \in Envs :
               LET r == Acquire(XC, id, env)
                   to == xeno_canto_step(id, r)
               IN /\ store' = StoreOf(r)
                  /\ last' = CallRecord(XC, id, env, r)
                  /\ pc' = to.pc
                  /\ si' = to.si
                  /\ queue' = to.queue
  /\ UNCHANGED <<variant, species, tax, run, folder, query_ok, fnVars>>

\* the recordings are exhausted: on to the next species
XenoCantoDone ==
  /\ pc = "xc_loop"
  /\ queue = <<>>
  /\ pc' = "species"
  /\ si' = si + 1
  /\ UNCHANGED <<variant, species, tax, run, folder, queue, store, query_ok, last, fnVars>>

Next ==
  \/ StartRun
  \/ BeginSpecies
  \/ Finish
  \/ MacaulayQuery
  \/ MacaulayItem
  \/ MacaulayDone
  \/ Sleep
  \/ XenoCantoQuery
  \/ XenoCantoItem
  \/ XenoCantoDone

Spec == Init /\ [][Next]_vars

\* the interpreter runs the script's next statement
FairSpec == Spec /\ WF_vars(Next)

(***************************************************************************)
(* The functions on their own: sanitize and folder_path in SpecFn,         *)
(* find_audio_asset_ids in SpecCatalog, each applied once to an input      *)
(* drawn from a bounded set.                                               *)
(***************************************************************************)
Texts == SeqsUpTo(Alphabet, MaxLen)

FnNames == {<<"a", " ">>, <<"/">>}
FnSciNames == {<<"a">>, <<"a", " ", "a">>}
FnOrders == {<<"a", "*">>, <<"a", " ", "a">>}
FnRows ==
  [PRIMARY_COM_NAME : FnNames, SCI_NAME : FnSciNames, ORDER : FnOrders,
   FAMILY : {<<"a", ":", "a">>}, SPECIES_CODE : {<<"a">>}]

FolderInputs ==
  [tax : SeqsUpTo(FnRows, MaxTaxRows), common_name : FnNames, scientific_name : FnSciNames]

Pages == SeqsUpTo(0..MaxAssetId, MaxPageLen)

\* a chain of one page or more; the request that fails, if any, is for one of them
Servers ==
  {v \in [pages : SeqsUpTo(Pages, MaxPages), failAt : 0..MaxPages] :
     v.pages # <<>> /\ v.failAt <= Len(v.pages)}

CatalogInputs == [server : Servers, max_items : 1..MaxLimit, variant : {"main", "xeno"}]

DriverIdle ==
  /\ variant = "main" /\ species = <<>> /\ tax = <<>> /\ run = 0 /\ pc = "fn" /\ si = 0
  /\ folder = <<>> /\ queue = <<>> /\ store = EmptyStore /\ query_ok = TRUE /\ last = NoCall

InitFn ==
  /\ DriverIdle
  /\ fnOut = <<>>
  /\ fnDone = FALSE
  /\ \/ fnOp = "sanitize" /\ fnIn \in Texts
     \/ fnOp = "folder" /\ fnIn \in FolderInputs

InitCatalog ==
  /\ DriverIdle
  /\ fnOut = <<>>
  /\ fnDone = FALSE
  /\ fnOp = "catalog"
  /\ fnIn \in CatalogInputs

ApplySanitize ==
  /\ fnOp = "sanitize" /\ ~fnDone
  /\ fnOut' = sanitize(fnIn)
  /\ fnDone' = TRUE
  /\ UNCHANGED <<fnOp, fnIn, driverVars>>

ApplyFolderPath ==
  /\ fnOp = "folder" /\ ~fnDone
  /\ fnOut' = folder_path(fnIn.tax, fnIn.common_name, fnIn.scientific_name)
  /\ fnDone' = TRUE
  /\ UNCHANGED <<fnOp, fnIn, driverVars>>

ApplyFindAudioAssetIds ==
  /\ fnOp = "catalog" /\ ~fnDone
  /\ fnOut' = IF fnIn.variant = "main"
              THEN find_audio_asset_ids(first_response(fnIn.server), fnIn.max_items)
              ELSE find_audio_asset_ids_xeno(first_response(fnIn.server))
  /\ fnDone' = TRUE
  /\ UNCHANGED <<fnOp, fnIn, driverVars>>

NextFn == ApplySanitize \/ ApplyFolderPath

SpecFn == InitFn /\ [][NextFn]_vars

NextCatalog == ApplyFindAudioAssetIds

SpecCatalog == InitCatalog /\ [][NextCatalog]_vars

(***************************************************************************)
(* The claims.                                                             *)
(***************************************************************************)
\* the next step of the driver is a call of download_audio
Downloading == pc \in {"mac_loop", "xc_loop"} /\ queue # <<>> /\ Head(queue) # 0

Count(seq, x) == Cardinality({i \in DOMAIN seq : seq[i] = x})

EndsWith(text, suffix) ==
  Len(text) >= Len(suffix)
  /\ SubSeq(text, Len(text) - Len(suffix) + 1, Len(text)) = suffix

\* the media files on disk of one (source, external_id) pair
AssetsOf(tag, id) ==
  {p \in store.files :
     EndsWith(p, <<"_">> \o tag \o <<"_">> \o str(id) \o <<".", "m", "p", "3">>)}

\* the rows of the table of one (source, external_id) pair
RowsOf(tag, id) ==
  {i \in DOMAIN store.sink :
     /\ store.sink[i].source = (IF tag = ML THEN "Macaulay Library" ELSE "Xeno-Canto")
     /\ store.sink[i].id = str(id)}

\* C1: when download_audio is called twice in a row with the same folder, file
\* name, url and metadata, and the first call fetched and saved, the second
\* call sends no fetch, reports Skipped and changes nothing on disk or in the
\* table, so that the two calls make one fetch and one insert in all.
C1_AcquireTwiceFetchesOnce ==
  [][(Downloading /\ last'.args = last.args /\ last.fetch_ok /\ last.outcome = "Saved")
       => /\ last.inserts = 1
          /\ last'.outcome = "Skipped"
          /\ ~last'.fetched
          /\ last'.inserts = 0
          /\ store' = store]_vars

\* C2 as claimed: at every moment of every run each (source, external_id) pair
\* has at most one media file on disk and at most one row in the table.
C2_OneAssetPerSourceId ==
  \A tag \in {ML, XC} : \A id \in 1..MaxId :
    Cardinality(AssetsOf(tag, id)) <= 1 /\ Cardinality(RowsOf(tag, id)) <= 1

\* C2 as amended: at every moment of every run each deterministic path
\* <species_folder>/<sanitized_common_name>_<TAG>_<external_id>.mp3 has had its
\* media file written at most once and at most one row inserted for it.
C2_OneAssetPerPath ==
  /\ \A p \in store.files : Count(store.writes, p) = 1
  /\ \A i \in DOMAIN store.writes : store.writes[i] \in store.files
  /\ \A i \in DOMAIN store.inserted : Count(store.inserted, store.inserted[i]) = 1
  /\ Len(store.sink) = Len(store.inserted)

\* a later run has met a file an earlier run saved, and has left it alone
C2_Witness ==
  /\ run = 2
  /\ last.outcome = "Skipped"
  /\ last.path \in store.files
  /\ Count(store.inserted, last.path) = 1

RECURSIVE Flatten(_)
Flatten(ss) == IF ss = <<>> THEN <<>> ELSE Head(ss) \o Flatten(Tail(ss))

\* the items a catalog walk yields by the spec: the pages up to the failing
\* one, cut at the caller's maximum, the items without an id dropped
PagesWalk(server, limit) ==
  LET upto == IF server.failAt = 0 THEN Len(server.pages) ELSE server.failAt - 1
  IN valid_items(Take(Flatten(SubSeq(server.pages, 1, upto)), limit))

\* limit=500 is sent to the server and nothing is cut by xeno.py itself
LimitOf(in) == IF in.variant = "main" THEN in.max_items ELSE 500

\* C3: when no request fails, find_audio_asset_ids yields the valid items of
\* all the pages of the chain, up to the caller's maximum.
C3_FollowsEveryContinuation ==
  (fnOp = "catalog" /\ fnDone /\ fnIn.server.failAt = 0)
    => valid_items(fnOut) = PagesWalk(fnIn.server, LimitOf(fnIn))

\* C4: when the request for page k fails, find_audio_asset_ids yields exactly
\* the valid items of pages 1..k-1.
C4_YieldsPagesBeforeFailure ==
  (fnOp = "catalog" /\ fnDone /\ fnIn.server.failAt > 0)
    => valid_items(fnOut) = PagesWalk(fnIn.server, LimitOf(fnIn))

\* C5: the driver sleeps after a call of download_audio if and only if the
\* call ended in Saved.
C5_SleepIffSaved ==
  [][Downloading => ((pc' \in {"mac_sleep", "xc_sleep"}) <=> (last'.outcome = "Saved"))]_vars

\* the first taxonomy row of a species, 0 when it has none
MatchOf(in) ==
  LET hits == {i \in DOMAIN in.tax :
                 /\ in.tax[i].PRIMARY_COM_NAME = in.common_name
                 /\ in.tax[i].SCI_NAME = in.scientific_name}
  IN IF hits = {} THEN 0 ELSE CHOOSE i \in hits : \A j \in hits : i <= j

\* C6: the folder of a species without a taxonomy row is
\* <base>/<sanitized common name>; with a row that holds an order and a family
\* it is <base>/<sanitized order>/<sanitized family>/<sanitized common name>.
C6_FolderPolicy ==
  (fnOp = "folder" /\ fnDone) =>
    LET k == MatchOf(fnIn)
        common == sanitize(fnIn.common_name)
    IN IF k = 0
       THEN fnOut = main_audio_folder \o <<"/">> \o common
       ELSE fnOut = main_audio_folder \o <<"/">> \o sanitize(fnIn.tax[k].ORDER) \o <<"/">>
                      \o sanitize(fnIn.tax[k].FAMILY) \o <<"/">> \o common

\* an unresolved species whose common name the sanitizer changes, in a table
\* that holds other species
C6_Witness ==
  /\ fnOp = "folder" /\ fnDone
  /\ fnIn.tax # <<>>
  /\ MatchOf(fnIn) = 0
  /\ fnIn.common_name = <<"a", " ">>
  /\ fnOut = main_audio_folder \o <<"/", "a", "_">>

\* C7: sanitize applied to its own result gives that result back.
C7_SanitizeIdempotent ==
  (fnOp = "sanitize" /\ fnDone) => sanitize(fnOut) = fnOut

\* a text with a space and two illegal characters has been sanitized
C7_Witness ==
  /\ fnOp = "sanitize" /\ fnDone
  /\ fnIn = <<"/", " ", "*">>
  /\ fnOut = <<"_">>

\* C8: a Failed download_audio is followed by the next item of the same loop
\* of the same species, a failed Macaulay search by the Xeno-Canto search of
\* the same species, a failed Xeno-Canto search by the next species, and every
\* run that starts reaches its closing print.
C8_FailureIsolated ==
  /\ [][/\ (Downloading /\ last'.outcome = "Failed")
             => /\ queue' = Tail(queue)
                /\ si' = si
                /\ pc' = (IF pc = "mac_loop" THEN "mac_sleep" ELSE "xc_loop")
        /\ (pc = "mac_query" /\ ~query_ok')
             => (pc' = "mac_loop" /\ queue' = <<>> /\ si' = si)
        /\ (pc = "mac_loop" /\ queue = <<>>) => (pc' = "xc_query" /\ si' = si)
        /\ (pc = "xc_query" /\ ~query_ok') => (pc' = "species" /\ si' = si + 1)]_vars
  /\ (pc = "species") ~> (pc = "done")

\* a run in which a download failed has reached its closing print
C8_Witness ==
  /\ pc = "done"
  /\ run = 1
  /\ last.outcome = "Failed"
  /\ Len(species) = MaxSpecies

\* C9: a call of download_audio whose fetch fails reports Failed and leaves
\* the media files, the sidecars and the table as they were.
C9_FetchFailureLeavesStore ==
  [][(Downloading /\ last'.fetched /\ ~last'.fetch_ok)
       => /\ last'.outcome = "Failed"
          /\ ~last'.ret
          /\ store' = store
          /\ (last'.path \notin store.files => last'.path \notin store'.files)]_vars

\* a fetch has failed in a second run, with nothing at the asset's path
C9_Witness ==
  /\ run = 2
  /\ last.fetched /\ ~last.fetch_ok
  /\ last.outcome = "Failed"
  /\ last.path \notin store.files
  /\ last.path \notin store.sidecars

\* C10: every media file that download_audio has written has its sidecar and
\* exactly one row in the table.
C10_RecordPerWrittenFile ==
  \A i \in DOMAIN store.writes :
    /\ store.writes[i] \in store.sidecars
    /\ Count(store.inserted, store.writes[i]) = 1
====
